---- MODULE Spec2Model ----
(***************************************************************************)
(* A model of lammps_thermo/lammps_thermo.py: the log scan of              *)
(* LAMMPSThermo._read_lammps_log, the HDF5 load of LAMMPSThermo._load_hdf5 *)
(* and the range query LAMMPSThermo.prop.                                  *)
(*                                                                         *)
(* Indices are 0-based as in the Python source; a TLA+ sequence s holds    *)
(* the Python element s[k] at position k + 1.                              *)
(***************************************************************************)
EXTENDS Integers, Sequences, FiniteSets, TLC

\* ---------------------------------------------------------------- bounds
MaxLines == 4      \* longest log file, in lines
MaxSkip  == 2      \* largest skip_sections
MaxRows  == 2      \* most rows of an HDF5 dataset
MaxVal   == 1      \* largest cell value of an HDF5 dataset

\* ------------------------------------------------------- Python values
\* end_keyword=None (the default 'Loop' replaced by None, load() docstring)
None == "None"
\* a local name the loop never bound: reading it raises NameError
Unbound == 0 - 1
\* time_start / time_end / step_start / step_end left at their default None
NoBound == 0 - 1

\* exception kinds, named by the raise site
NoError            == "none"
StartKeywordError  == "NameError: start keyword not found"
EndKeywordError    == "NameError: ending keyword not found"
NLinesAssertion    == "AssertionError: n_lines > 0"
AsArrayValueError  == "ValueError: np.asarray"
Hdf5Assertion      == "AssertionError: columns vs attributes"
Hdf5IndexError     == "IndexError: data.shape[1]"

\* ------------------------------------------------------------ log lines
\* A raw line is a sequence of pieces: words and runs of whitespace " ".
WS == " "

\* line.strip().split(): the words of the line, whitespace dropped
Split(line) == SelectSeq(line, LAMBDA p : p # WS)

\* float(token) as np.asarray(..., dtype=np.float64) applies it to a string
FloatOf == [t \in {"0", "1", "2"} |-> CASE t = "0" -> 0 [] t = "1" -> 1 [] t = "2" -> 2]

IsNumeric(t) == t \in DOMAIN FloatOf

\* the lines a log file of the model is made of
LineSet ==
    { <<>>,                          \* empty line
      <<"Step", WS, "Time">>,        \* header, two properties
      <<WS, "Step", WS, "Step">>,    \* indented header, a repeated property
      <<"Loop", WS, "x">>,           \* 'Loop time of ...'
      <<"0">>,                       \* one numeric field
      <<"1", WS, "2">>,              \* two numeric fields
      <<"x">> }                      \* free text

Keywords == {"Step", "Loop"}

LogFiles == UNION { [1..n -> LineSet] : n \in 0..MaxLines }

\* ------------------------------------------------------------ the scan
\* locals of _read_lammps_log before the loop
ScanInit ==
    [ log_data |-> <<>>, found_sections |-> 0, i |-> Unbound,
      start_idx |-> Unbound, end_idx |-> Unbound, broke |-> FALSE ]

\* one iteration of 'for i, line in enumerate(log_file)'
LoopBody(st, idx, line, start_keyword, end_keyword, skip_sections) ==
    LET line_list == Split(line)
        st1 == [st EXCEPT !.i = idx, !.log_data = Append(@, line_list)]
    IN  IF Len(line_list) = 0
        THEN st1                      \* line_list[0] raises IndexError: continue
        ELSE LET st2 == IF line_list[1] = start_keyword
                        THEN [st1 EXCEPT !.start_idx = idx,
                                         !.found_sections = @ + 1]
                        ELSE st1
             IN  IF /\ end_keyword # None
                    /\ line_list[1] = end_keyword
                    /\ st2.found_sections > skip_sections
                 THEN [st2 EXCEPT !.end_idx = idx, !.broke = TRUE]
                 ELSE st2

RECURSIVE ScanLoop(_, _, _, _, _, _)
ScanLoop(st, idx, lines, start_keyword, end_keyword, skip_sections) ==
    IF idx >= Len(lines) \/ st.broke
    THEN st
    ELSE ScanLoop(LoopBody(st, idx, lines[idx + 1],
                           start_keyword, end_keyword, skip_sections),
                  idx + 1, lines, start_keyword, end_keyword, skip_sections)

\* ------------------------------------------------------- numpy arrays
\* the array of shape (0,) that np.asarray([]) returns
Empty1D == [ndim |-> 1, nrows |-> 0, ncols |-> 0, rows |-> <<>>]

Array2D(rows, ncols) ==
    [ndim |-> 2, nrows |-> Len(rows), ncols |-> ncols, rows |-> rows]

\* np.asarray(block, dtype=np.float64) on a list of lists of strings:
\* ok = FALSE when it raises ValueError (ragged rows, non-numeric string)
AsArray(block) ==
    IF Len(block) = 0
    THEN [ok |-> TRUE, arr |-> Empty1D]
    ELSE IF /\ \A r \in 1..Len(block) : Len(block[r]) = Len(block[1])
            /\ \A r \in 1..Len(block) :
                   \A c \in 1..Len(block[r]) : IsNumeric(block[r][c])
         THEN [ok |-> TRUE,
               arr |-> Array2D([r \in 1..Len(block) |->
                                  [c \in 1..Len(block[r]) |-> FloatOf[block[r][c]]]],
                               Len(block[1]))]
         ELSE [ok |-> FALSE, arr |-> Empty1D]

\* {prop: i for i, prop in enumerate(col_headers)}: the last index wins
ColMap(col_headers) ==
    [ p \in { col_headers[k] : k \in 1..Len(col_headers) } |->
        CHOOSE j \in 0..(Len(col_headers) - 1) :
            /\ col_headers[j + 1] = p
            /\ \A k \in 0..(Len(col_headers) - 1) : col_headers[k + 1] = p => k <= j ]

EmptyMap == [p \in {} |-> 0]

LoadFailure(e, st) ==
    [ err |-> e, header_map |-> EmptyMap, data |-> Empty1D,
      start_idx |-> st.start_idx, end_idx |-> st.end_idx ]

\* _read_lammps_log after the loop: the checks, the header and the array
ReadLammpsLog(lines, start_keyword, end_keyword, skip_sections) ==
    LET st == ScanLoop(ScanInit, 0, lines, start_keyword, end_keyword, skip_sections)
    IN  IF st.start_idx = Unbound
        THEN LoadFailure(StartKeywordError, st)
        ELSE IF end_keyword # None /\ st.end_idx = Unbound
        THEN LoadFailure(EndKeywordError, st)
        ELSE LET end_idx == IF end_keyword # None THEN st.end_idx ELSE st.i
                 n_lines == end_idx - st.start_idx
                 st3     == [st EXCEPT !.end_idx = end_idx]
             IN  IF ~(n_lines > 0)
                 THEN LoadFailure(NLinesAssertion, st3)
                 ELSE LET col_headers == st.log_data[st.start_idx + 1]
                          a == AsArray(SubSeq(st.log_data, st.start_idx + 2, end_idx))
                      IN  IF ~a.ok
                          THEN LoadFailure(AsArrayValueError, st3)
                          ELSE [ err |-> NoError,
                                 header_map |-> ColMap(col_headers),
                                 data |-> a.arr,
                                 start_idx |-> st.start_idx,
                                 end_idx |-> end_idx ]

\* ------------------------------------------------------------ HDF5 load
PropNames == {"Step", "Time"}

\* widest HDF5 dataset: one column per property name
MaxCols == Cardinality(PropNames)

\* the 'lammps_thermo' datasets of the model: 2-D arrays, and the 1-D empty one
Datasets ==
    {Empty1D} \cup
    UNION { { Array2D(rows, k) : rows \in [1..n -> [1..k -> 0..MaxVal]] } :
            n \in 0..MaxRows, k \in 0..MaxCols }

\* the attributes of a dataset: property name -> column number
AttrSets == UNION { [S -> 0..(MaxCols - 1)] : S \in SUBSET PropNames }

\* _load_hdf5: header_map from the attributes, data from the dataset, and
\* the assertion len(header_map) == data.shape[1]
LoadHdf5Result(dataset, attrs) ==
    IF dataset.ndim < 2
    THEN [err |-> Hdf5IndexError, header_map |-> EmptyMap, data |-> Empty1D]
    ELSE IF Cardinality(DOMAIN attrs) # dataset.ncols
    THEN [err |-> Hdf5Assertion, header_map |-> EmptyMap, data |-> Empty1D]
    ELSE [err |-> NoError, header_map |-> attrs, data |-> dataset]

\* ------------------------------------------------------------ the query
QueryOk             == "returned"
PropsTypeError      == "ValueError: props must be a string or a list"
MissingTimeColumn   == "ValueError: 'Time' data not present"
InvalidTimeRange    == "ValueError: time_start greater than time_end"
ConflictingRange    == "ValueError: time and step bounds cannot be combined"
MissingStepColumn   == "ValueError: 'Step' data not present"
InvalidStepRange    == "ValueError: step_start greater than step_end"
UnknownProperty     == "ValueError: selected property does not exist"
TimeStartOutOfRange == "IndexError: time_start greater than any time"
TimeEndOutOfRange   == "IndexError: time_end less than any time"
StepStartOutOfRange == "IndexError: step_start greater than any step"
StepEndOutOfRange   == "IndexError: step_end less than any step"
CompareTypeError    == "TypeError: '<=' between float and NoneType"
ColumnIndexError    == "IndexError: self.data[:, col]"

\* self.data[:, col] raises IndexError on a 1-D array or a column that is not there
HasColumn(d, col) == d.ndim = 2 /\ col >= 0 /\ col < d.ncols

\* WhereGeq with > in place of >=
WhereGeqStrict(d, col, bound) == { r \in 0..(d.nrows - 1) : d.rows[r + 1][col + 1] > bound }

\* np.where(self.data[:, col] >= bound)[0], as a set of 0-based row indices
WhereGeq(d, col, bound) == { r \in 0..(d.nrows - 1) : d.rows[r + 1][col + 1] >= bound }

\* np.where(self.data[:, col] <= bound)[0]
WhereLeq(d, col, bound) == { r \in 0..(d.nrows - 1) : d.rows[r + 1][col + 1] <= bound }

Min(S) == CHOOSE x \in S : \A y \in S : x <= y
Max(S) == CHOOSE x \in S : \A y \in S : x >= y

\* the props argument as passed: a str, a list of str, or something else
\* (a tuple); names is its content
StrProps(name)   == [kind |-> "str", names |-> <<name>>]
ListProps(names) == [kind |-> "list", names |-> names]
TupleProps(names) == [kind |-> "tuple", names |-> names]

\* Validate without the test of lines 136-139
ValidateNoConflict(hm, propsArg, time_start, time_end, step_start, step_end) ==
    LET props == propsArg.names IN
    IF propsArg.kind \notin {"str", "list"}
    THEN PropsTypeError
    ELSE IF /\ (time_start # NoBound \/ time_end # NoBound)
            /\ "Time" \notin DOMAIN hm
    THEN MissingTimeColumn
    ELSE IF /\ time_start # NoBound /\ time_end # NoBound
            /\ time_start > time_end
    THEN InvalidTimeRange
    ELSE IF /\ (step_start # NoBound \/ step_end # NoBound)
            /\ "Step" \notin DOMAIN hm
    THEN MissingStepColumn
    ELSE IF /\ step_start # NoBound /\ step_end # NoBound
            /\ step_start > step_end
    THEN InvalidStepRange
    ELSE IF \E k \in 1..Len(props) : props[k] \notin DOMAIN hm
    THEN UnknownProperty
    ELSE QueryOk

\* the checks of prop() before any row is selected (lines 116-160):
\* the first exception raised, or QueryOk
Validate(hm, propsArg, time_start, time_end, step_start, step_end) ==
    LET props == propsArg.names IN
    IF propsArg.kind \notin {"str", "list"}
    THEN PropsTypeError
    ELSE IF /\ (time_start # NoBound \/ time_end # NoBound)
       /\ "Time" \notin DOMAIN hm
    THEN MissingTimeColumn
    ELSE IF /\ time_start # NoBound /\ time_end # NoBound
            /\ time_start > time_end
    THEN InvalidTimeRange
    ELSE IF /\ (time_start # NoBound \/ time_end # NoBound)
            /\ (step_start # NoBound \/ step_end # NoBound)
    THEN ConflictingRange
    ELSE IF /\ (step_start # NoBound \/ step_end # NoBound)
            /\ "Step" \notin DOMAIN hm
    THEN MissingStepColumn
    ELSE IF /\ step_start # NoBound /\ step_end # NoBound
            /\ step_start > step_end
    THEN InvalidStepRange
    ELSE IF \E k \in 1..Len(props) : props[k] \notin DOMAIN hm
    THEN UnknownProperty
    ELSE QueryOk

\* the four bound lookups of lines 162-204, in the order of the source.
\* Each takes the indices found so far, ix = [err, idx_start, idx_end] with
\* NoBound for None, and binds one of them or raises.
NoIdx == [err |-> QueryOk, idx_start |-> NoBound, idx_end |-> NoBound]

IdxFail(e) == [err |-> e, idx_start |-> NoBound, idx_end |-> NoBound]

\* lines 165-173
TimeStartIdx(ix, hm, d, time_start) ==
    IF ix.err # QueryOk \/ time_start = NoBound
    THEN ix
    ELSE IF ~HasColumn(d, hm["Time"]) \/ WhereGeq(d, hm["Time"], time_start) = {}
    THEN IdxFail(TimeStartOutOfRange)
    ELSE [ix EXCEPT !.idx_start = Min(WhereGeq(d, hm["Time"], time_start))]

\* lines 175-183
TimeEndIdx(ix, hm, d, time_end) ==
    IF ix.err # QueryOk \/ time_end = NoBound
    THEN ix
    ELSE IF ~HasColumn(d, hm["Time"]) \/ WhereLeq(d, hm["Time"], time_end) = {}
    THEN IdxFail(TimeEndOutOfRange)
    ELSE [ix EXCEPT !.idx_end = Max(WhereLeq(d, hm["Time"], time_end)) + 1]

\* lines 186-194
StepStartIdx(ix, hm, d, step_start) ==
    IF ix.err # QueryOk \/ step_start = NoBound
    THEN ix
    ELSE IF ~HasColumn(d, hm["Step"]) \/ WhereGeq(d, hm["Step"], step_start) = {}
    THEN IdxFail(StepStartOutOfRange)
    ELSE [ix EXCEPT !.idx_start = Min(WhereGeq(d, hm["Step"], step_start))]

\* lines 196-204.  Line 199 compares the Step column with time_end, not
\* step_end.  With time_end = None the comparison of a float with None raises
\* TypeError; on a column with no element nothing is compared, and
\* emptyCompareRaises is whether the comparison raises all the same.
StepEndIdx(ix, hm, d, time_end, step_end, emptyCompareRaises) ==
    IF ix.err # QueryOk \/ step_end = NoBound
    THEN ix
    ELSE IF ~HasColumn(d, hm["Step"])
    THEN IdxFail(StepEndOutOfRange)
    ELSE IF time_end = NoBound
    THEN IF d.nrows > 0 \/ emptyCompareRaises
         THEN IdxFail(CompareTypeError)
         ELSE IdxFail(StepEndOutOfRange)
    ELSE IF WhereLeq(d, hm["Step"], time_end) = {}
    THEN IdxFail(StepEndOutOfRange)
    ELSE [ix EXCEPT !.idx_end = Max(WhereLeq(d, hm["Step"], time_end)) + 1]

\* requested_props[idx_start: idx_end] of lines 206-211: the rows
\* idx_start .. idx_end - 1, each restricted to the columns of props
Slice(hm, d, props, idx_start, idx_end) ==
    LET lo == IF idx_start = NoBound THEN 0 ELSE idx_start
        hi == IF idx_end = NoBound THEN d.nrows ELSE idx_end
    IN  [ r \in 1..(IF hi > lo THEN hi - lo ELSE 0) |->
            [ k \in 1..Len(props) |-> d.rows[lo + r][hm[props[k]] + 1] ] ]

\* prop(props, time_start, time_end, step_start, step_end): [err, rows]
PropResult(hm, d, propsArg, time_start, time_end, step_start, step_end, emptyCompareRaises) ==
    LET v == Validate(hm, propsArg, time_start, time_end, step_start, step_end)
        props == propsArg.names
    IN  IF v # QueryOk
        THEN [err |-> v, rows |-> <<>>]
        ELSE LET ix == StepEndIdx(
                          StepStartIdx(
                              TimeEndIdx(
                                  TimeStartIdx(NoIdx, hm, d, time_start),
                                  hm, d, time_end),
                              hm, d, step_start),
                          hm, d, time_end, step_end, emptyCompareRaises)
             IN  IF ix.err # QueryOk
                 THEN [err |-> ix.err, rows |-> <<>>]
                 ELSE IF \E k \in 1..Len(props) : ~HasColumn(d, hm[props[k]])
                 THEN [err |-> ColumnIndexError, rows |-> <<>>]
                 ELSE [err |-> QueryOk,
                       rows |-> Slice(hm, d, props, ix.idx_start, ix.idx_end)]

\* the bound values and the props arguments a query of the model is made of
Bounds == {NoBound, 0, 1}

PropsArgs ==
    { ListProps(<<"Time">>), ListProps(<<"Step", "Time">>),
      ListProps(<<"Time", "Step">>), ListProps(<<>>),
      StrProps("Step"), StrProps("Time"), TupleProps(<<"Time">>) }

\* ------------------------------------------------------------ the state
LogName  == "log.lammps"
Hdf5Name == "thermo.hdf5"

\* filename.endswith(('.hdf5', '.hf5', '.hdf')) of __init__
IsHdf5 == [f \in {LogName, Hdf5Name} |-> f = Hdf5Name]

VARIABLES
    status,          \* "new", "loaded" (the constructor returned) or "failed"
    err,             \* the exception the constructor raised, or NoError
    filename,        \* self.filename
    header_map,      \* self.header_map
    data,            \* self.data
    log_file,        \* the lines of the log file given to the constructor
    start_keyword, end_keyword, skip_sections,
    start_idx, end_idx,  \* locals of _read_lammps_log when it returned or raised
    query,           \* the arguments of the call of prop(), once it is made
    qerr,            \* "none" before the call, then QueryOk or its exception
    result           \* the rows prop() returned

loadVars == << status, err, filename, header_map, data, log_file,
               start_keyword, end_keyword, skip_sections, start_idx, end_idx >>

queryVars == << query, qerr, result >>

vars == << status, err, filename, header_map, data, log_file,
           start_keyword, end_keyword, skip_sections, start_idx, end_idx,
           query, qerr, result >>

NoQuery ==
    [ props |-> ListProps(<<"Time">>), time_start |-> NoBound, time_end |-> NoBound,
      step_start |-> NoBound, step_end |-> NoBound ]

Init ==
    /\ status = "new"
    /\ err = NoError
    /\ filename = LogName
    /\ header_map = EmptyMap
    /\ data = Empty1D
    /\ log_file = <<>>
    /\ start_keyword = "Step"
    /\ end_keyword = "Loop"
    /\ skip_sections = 0
    /\ start_idx = Unbound
    /\ end_idx = Unbound
    /\ query = NoQuery
    /\ qerr = "none"
    /\ result = <<>>

\* LAMMPSThermo(filename, start_keyword, end_keyword, skip_sections) on a log file
LoadLog ==
    /\ status = "new"
    /\ \E f \in DOMAIN IsHdf5, lines \in LogFiles, sk \in Keywords,
          ek \in Keywords \cup {None}, skip \in 0..MaxSkip :
          LET r == ReadLammpsLog(lines, sk, ek, skip)
          IN  /\ ~IsHdf5[f]
              /\ filename' = f
              /\ log_file' = lines
              /\ start_keyword' = sk
              /\ end_keyword' = ek
              /\ skip_sections' = skip
              /\ err' = r.err
              /\ status' = IF r.err = NoError THEN "loaded" ELSE "failed"
              /\ header_map' = r.header_map
              /\ data' = r.data
              /\ start_idx' = r.start_idx
              /\ end_idx' = r.end_idx
    /\ UNCHANGED queryVars

\* LAMMPSThermo(filename) on an HDF5 file
LoadHdf5 ==
    /\ status = "new"
    /\ \E f \in DOMAIN IsHdf5, dataset \in Datasets, attrs \in AttrSets :
          LET r == LoadHdf5Result(dataset, attrs)
          IN  /\ IsHdf5[f]
              /\ filename' = f
              /\ err' = r.err
              /\ status' = IF r.err = NoError THEN "loaded" ELSE "failed"
              /\ header_map' = r.header_map
              /\ data' = r.data
    /\ UNCHANGED << log_file, start_keyword, end_keyword, skip_sections,
                    start_idx, end_idx >>
    /\ UNCHANGED queryVars

\* thermo.prop(props, time_start, time_end, step_start, step_end) on a
\* loaded object; prop() changes nothing of the object, so one call is followed
Prop ==
    /\ status = "loaded"
    /\ qerr = "none"
    /\ \E props \in PropsArgs, ts \in Bounds, te \in Bounds, ss \in Bounds,
          se \in Bounds,
          emptyCompareRaises \in (IF data.nrows = 0 THEN BOOLEAN ELSE {TRUE}) :
          LET r == PropResult(header_map, data, props, ts, te, ss, se,
                              emptyCompareRaises)
          IN  /\ query' = [ props |-> props, time_start |-> ts, time_end |-> te,
                            step_start |-> ss, step_end |-> se ]
              /\ qerr' = r.err
              /\ result' = r.rows
    /\ UNCHANGED loadVars

\* the constructor, on either kind of file
Next == LoadLog \/ LoadHdf5

Spec == Init /\ [][Next]_vars

\* an object loaded from an HDF5 file, then queried
QueryNext == LoadHdf5 \/ Prop

QuerySpec == Init /\ [][QueryNext]_vars

\* ------------------------------------------------- notions of the claims
\* the constructor ran on a log file: it returned or it raised
LogAttempted == status # "new" /\ ~IsHdf5[filename]

\* the constructor returned an object read from a log file
LogLoaded == status = "loaded" /\ ~IsHdf5[filename]

\* 0-based indices of the lines whose first token is the keyword kw
LinesStartingWith(kw) ==
    { k \in 0..(Len(log_file) - 1) :
        /\ Len(Split(log_file[k + 1])) > 0
        /\ Split(log_file[k + 1])[1] = kw }

\* the (skip_sections+1)-th start-keyword line, top to bottom: {} or one index
AcceptedHeader ==
    { k \in LinesStartingWith(start_keyword) :
        Cardinality({ j \in LinesStartingWith(start_keyword) : j < k }) = skip_sections }

\* the column col of self.data is sorted ascending
SortedBy(col) ==
    \A r \in 1..(data.nrows - 1) : data.rows[r][col + 1] <= data.rows[r + 1][col + 1]

\* prop() was called with a str or a list of names the table has, each
\* mapped to a column of the data
KnownProps ==
    /\ qerr # "none"
    /\ query.props.kind \in {"str", "list"}
    /\ \A k \in 1..Len(query.props.names) :
          /\ query.props.names[k] \in DOMAIN header_map
          /\ HasColumn(data, header_map[query.props.names[k]])

\* the rows lo .. hi - 1 (0-based) of the data, restricted to the columns
\* of the requested properties in the requested order
RowsOf(lo, hi) ==
    [ r \in 1..(IF hi > lo THEN hi - lo ELSE 0) |->
        [ k \in 1..Len(query.props.names) |->
            data.rows[lo + r][header_map[query.props.names[k]] + 1] ] ]

\* ------------------------------------------------------------ the claims

\* C1 (as stated): whenever the log extraction succeeds, the header row it
\* uses is the (skip_sections+1)-th line whose first token is start_keyword,
\* with and without an end keyword.
C1_HeaderIsNthStartLine ==
    LogLoaded => start_idx \in AcceptedHeader

\* C2 (as stated): with end_keyword=None the block runs to end-of-file:
\* end_idx is one past the last line and every line after the header is a row.
C2_IncompleteRunsToEof ==
    (LogLoaded /\ end_keyword = None) =>
        /\ end_idx = Len(log_file)
        /\ data.nrows = Len(log_file) - start_idx - 1

\* C3 (as stated): with an end keyword, the block is terminated by the first
\* end-keyword line after the accepted header, and when no such line follows
\* the extraction fails with the end-keyword-not-found error.
C3_EndKeywordTerminates ==
    (LogAttempted /\ end_keyword # None) =>
        \A h \in AcceptedHeader :
            LET after == { k \in LinesStartingWith(end_keyword) : k > h }
            IN  IF after = {}
                THEN status = "failed" /\ err = EndKeywordError
                ELSE end_idx = Min(after) /\ err # EndKeywordError

\* C4 (as stated): with fewer than skip_sections+1 start-keyword lines the
\* extraction fails with the start-keyword-not-found error, in both modes.
C4_TooFewStartLines ==
    (LogAttempted /\ Cardinality(LinesStartingWith(start_keyword)) < skip_sections + 1) =>
        status = "failed" /\ err = StartKeywordError

\* C5 (as stated, for a given end keyword): a log whose header line is
\* immediately followed by the end-keyword line fails with the n_lines
\* assertion (EmptyDataBlock), and a successful extraction has at least one row.
C5_EmptyBlockFails ==
    /\ (LogLoaded /\ end_keyword # None) => data.nrows >= 1
    /\ (LogAttempted /\ end_keyword # None /\ start_idx # Unbound
          /\ end_idx = start_idx + 1) => err = NLinesAssertion

\* C6 (as stated): after any successful load that returned a matrix, the
\* number of keys of header_map equals the number of columns of the data,
\* and every value of header_map is a column index of the data.
C6_SchemaInvariant ==
    (status = "loaded" /\ data.ndim = 2) =>
        /\ Cardinality(DOMAIN header_map) = data.ncols
        /\ \A p \in DOMAIN header_map : HasColumn(data, header_map[p])

\* C7 (as stated): after a successful extraction every line strictly between
\* the header line and the terminating line has exactly len(header_map) fields.
C7_FieldCountMatchesHeader ==
    LogLoaded =>
        \A k \in (start_idx + 1)..(end_idx - 1) :
            Len(Split(log_file[k + 1])) = Cardinality(DOMAIN header_map)

\* C8: on a table whose 'Time' column is sorted ascending, a query with time
\* bounds only (time_start <= time_end, known properties) fails with the
\* out-of-range IndexError when time_start exceeds every Time value or
\* time_end is below every Time value, and otherwise returns exactly the rows
\* from the first one with Time >= time_start up to the last one with
\* Time <= time_end, in order, restricted to the requested columns.
C8_TimeRangeQuery ==
    ( /\ KnownProps
      /\ query.step_start = NoBound /\ query.step_end = NoBound
      /\ "Time" \in DOMAIN header_map
      /\ HasColumn(data, header_map["Time"])
      /\ SortedBy(header_map["Time"])
      /\ ~(query.time_start # NoBound /\ query.time_end # NoBound
             /\ query.time_start > query.time_end) )
    => LET col == header_map["Time"]
           below == IF query.time_start = NoBound THEN {}
                    ELSE { r \in 1..data.nrows : data.rows[r][col + 1] < query.time_start }
           above == IF query.time_end = NoBound THEN {}
                    ELSE { r \in 1..data.nrows : data.rows[r][col + 1] > query.time_end }
           start_row == Cardinality(below)
           end_row == data.nrows - Cardinality(above)
       IN  IF \/ query.time_start # NoBound /\ start_row = data.nrows
              \/ query.time_end # NoBound /\ end_row = 0
           THEN qerr \in {TimeStartOutOfRange, TimeEndOutOfRange} /\ result = <<>>
           ELSE qerr = QueryOk /\ result = RowsOf(start_row, end_row)

\* C8 witness: a query with both time bounds returned a proper, non-empty
\* part of a table with a sorted 'Time' column.
C8_Witness ==
    /\ KnownProps
    /\ qerr = QueryOk
    /\ query.step_start = NoBound /\ query.step_end = NoBound
    /\ query.time_start # NoBound /\ query.time_end # NoBound
    /\ "Time" \in DOMAIN header_map
    /\ HasColumn(data, header_map["Time"])
    /\ SortedBy(header_map["Time"])
    /\ Len(query.props.names) = 2
    /\ Len(result) >= 1
    /\ Len(result) < data.nrows

\* C9 (as stated, on a table with at least one row): step bounds select rows
\* by the 'Step' column exactly as time bounds do by the 'Time' column: first
\* row with Step >= step_start, one past the last row with Step <= step_end.
C9_StepRangeQuery ==
    ( /\ KnownProps
      /\ data.nrows >= 1
      /\ query.time_start = NoBound /\ query.time_end = NoBound
      /\ "Step" \in DOMAIN header_map
      /\ HasColumn(data, header_map["Step"])
      /\ SortedBy(header_map["Step"])
      /\ ~(query.step_start # NoBound /\ query.step_end # NoBound
             /\ query.step_start > query.step_end) )
    => LET col == header_map["Step"]
           below == IF query.step_start = NoBound THEN {}
                    ELSE { r \in 1..data.nrows : data.rows[r][col + 1] < query.step_start }
           above == IF query.step_end = NoBound THEN {}
                    ELSE { r \in 1..data.nrows : data.rows[r][col + 1] > query.step_end }
           start_row == Cardinality(below)
           end_row == data.nrows - Cardinality(above)
       IN  IF \/ query.step_start # NoBound /\ start_row = data.nrows
              \/ query.step_end # NoBound /\ end_row = 0
           THEN qerr \in {StepStartOutOfRange, StepEndOutOfRange} /\ result = <<>>
           ELSE qerr = QueryOk /\ result = RowsOf(start_row, end_row)

\* a query was made with at least one time bound and at least one step bound
BothRanges ==
    /\ qerr # "none"
    /\ query.props.kind \in {"str", "list"}
    /\ (query.time_start # NoBound \/ query.time_end # NoBound)
    /\ (query.step_start # NoBound \/ query.step_end # NoBound)

\* C10 (as stated): a query with a time bound and a step bound always fails
\* with ConflictingRangeFilter, whatever the table and the bound values.
C10_AlwaysConflicting ==
    BothRanges => qerr = ConflictingRange /\ result = <<>>

\* C10 (amended): a query with a time bound and a step bound always fails
\* and returns no data: with the missing-'Time' error on a table without a
\* 'Time' column, else with the invalid-range error when time_start >
\* time_end, else with ConflictingRangeFilter.
C10_ConflictAfterTimeChecks ==
    BothRanges =>
        /\ result = <<>>
        /\ qerr = IF "Time" \notin DOMAIN header_map
                  THEN MissingTimeColumn
                  ELSE IF /\ query.time_start # NoBound /\ query.time_end # NoBound
                          /\ query.time_start > query.time_end
                  THEN InvalidTimeRange
                  ELSE ConflictingRange

\* C10 witness: a query with both kinds of bounds, on a table with a 'Time'
\* and a 'Step' column, was rejected as conflicting.
C10_Witness ==
    /\ BothRanges
    /\ {"Time", "Step"} \subseteq DOMAIN header_map
    /\ query.time_start # NoBound /\ query.time_end # NoBound
    /\ query.step_start # NoBound /\ query.step_end # NoBound
    /\ query.step_start > query.step_end
    /\ qerr = ConflictingRange
====
